---- MODULE Spec2Model ----
(***************************************************************************)
(* Reliable Imports: the batch/item processing engine of BatchManager      *)
(* (src/reliable_imports/batch.py) over a transactional store.             *)
(*                                                                         *)
(* db is the committed content of the store, tx is what the orchestrator's *)
(* open connection sees (db plus its own uncommitted statements).  A       *)
(* commit copies tx to db, a rollback copies db to tx.  process_batch is   *)
(* cut at its commit/rollback points, so that a crash can fall between any *)
(* two of them.                                                            *)
(***************************************************************************)
EXTENDS Integers, Sequences, FiniteSets, TLC

VARIABLES db, tx, pc, run, call, calls, pre, runs, registry, batch_summary

vars == <<db, tx, pc, run, call, calls, pre, runs, registry, batch_summary>>

----------------------------------------------------------------------------
(* Bounds of the model *)

(* items of a create_batch request *)
MaxItems == 2
(* process_batch runs, those started by reprocess_batch included *)
MaxRuns == 2
(* batches made by create_batch *)
MaxRoots == 1

----------------------------------------------------------------------------
(* Values *)

Null == "NULL"
NoBatch == 0
NoItem == 0

PENDING == "pending"
PROCESSING == "processing"
COMPLETED == "completed"
FAILED == "failed"
SKIPPED == "skipped"

(* Batch ids a caller may pass: every batch there can be, and one more. *)
BatchIds == 1..(MaxRoots + MaxRuns)

(* The processor registry the first manager works with: batch types with  *)
(* a registered processor.                                                 *)
Registry == {"customer_data", "order_data"}

(* The registries a BatchManager is constructed with. *)
Registries == {Registry, {"customer_data"}}

(* Mutant: has answers True for every type *)
registry_has_Any(batch_type) == TRUE

registry_has(batch_type) == batch_type \in registry

(* Mutant: get hands back a processor without looking the type up *)
registry_get_NoCheck(batch_type) == batch_type

(* ProcessorRegistry.get: the processor of the type, or the error raised *)
registry_get(batch_type) ==
    IF batch_type \notin registry THEN "ProcessorNotFoundError" ELSE batch_type

(* Item payloads handed to create_batch: a JSON-stable dict and a dict     *)
(* holding a tuple, which json.dumps stores as a list.                     *)
Payloads == {"{'email': 'a'}", "{'tags': ('a',)}"}

Json(v) == IF v = "{'tags': ('a',)}" THEN "{'tags': ['a']}" ELSE v

(* `source_info or {}` / `metadata or {}` *)
OrEmpty(v) == IF v = Null \/ v = "{}" THEN "{}" ELSE v

(* The payload list of a request: n items, alternating from `first`, so   *)
(* that neighbouring items carry different payloads.                       *)
Other(p) == CHOOSE q \in Payloads : q # p

ItemList(first, n) == [k \in 1..n |-> IF k % 2 = 1 THEN first ELSE Other(first)]

(* create_batch requests. *)
CreateRequests ==
    {[batch_type |-> "customer_data", items |-> ItemList("{'email': 'a'}", n),
      source_info |-> "{'source': 'example'}", metadata |-> Null] : n \in 0..MaxItems}
    \cup
    {[batch_type |-> "order_data", items |-> ItemList("{'tags': ('a',)}", 1),
      source_info |-> Null, metadata |-> "{'imported_by': 'demo'}"]}
    \cup
    {[batch_type |-> "unknown_type", items |-> ItemList("{'email': 'a'}", 1),
      source_info |-> Null, metadata |-> Null]}

----------------------------------------------------------------------------
(* The store's tables *)

EmptyStore ==
    [import_batches |-> {}, import_batch_items |-> {}, import_logs |-> {},
     target_rows |-> {}]

(* uuid4(): an id no row of the table carries *)
NewBatchId(d) == Cardinality(d.import_batches) + 1
NewItemId(d) == Cardinality(d.import_batch_items) + 1
NewRowId(d) == Cardinality(d.target_rows) + 1

InsertBatch(d, id, batch_type, source_info, metadata, parent_batch_id) ==
    [d EXCEPT !.import_batches = @ \cup
        {[id |-> id, batch_type |-> batch_type, status |-> PENDING,
          source_info |-> Json(OrEmpty(source_info)),
          metadata |-> Json(OrEmpty(metadata)),
          started_at |-> Null, completed_at |-> Null,
          error_message |-> Null, parent_batch_id |-> parent_batch_id]}]

InsertItem(d, batch_id, idx, source_data) ==
    [d EXCEPT !.import_batch_items = @ \cup
        {[id |-> NewItemId(d), batch_id |-> batch_id, item_index |-> idx,
          status |-> PENDING, source_data |-> Json(source_data),
          processed_data |-> Null, target_table |-> Null, target_id |-> Null,
          error_message |-> Null, processed_at |-> Null]}]

(* Mutant: item_index counts from 1 *)
RECURSIVE InsertItems_OneBased(_, _, _, _)
InsertItems_OneBased(d, batch_id, payloads, idx) ==
    IF idx >= Len(payloads) THEN d
    ELSE InsertItems_OneBased(InsertItem(d, batch_id, idx + 1, payloads[idx + 1]),
                              batch_id, payloads, idx + 1)

(* for idx, item_data in enumerate(items): INSERT ... *)
RECURSIVE InsertItems(_, _, _, _)
InsertItems(d, batch_id, payloads, idx) ==
    IF idx >= Len(payloads) THEN d
    ELSE InsertItems(InsertItem(d, batch_id, idx, payloads[idx + 1]),
                     batch_id, payloads, idx + 1)

BatchExists(d, batch_id) == \E b \in d.import_batches : b.id = batch_id

_load_batch(d, batch_id) == CHOOSE b \in d.import_batches : b.id = batch_id

ItemsOf(d, batch_id) == {i \in d.import_batch_items : i.batch_id = batch_id}

(* Mutant: ORDER BY item_index DESC *)
RECURSIVE OrderByIndex_Desc(_)
OrderByIndex_Desc(S) ==
    IF S = {} THEN <<>>
    ELSE LET first == CHOOSE i \in S : \A j \in S : i.item_index >= j.item_index
         IN  <<first>> \o OrderByIndex_Desc(S \ {first})

(* ORDER BY item_index *)
RECURSIVE OrderByIndex(_)
OrderByIndex(S) ==
    IF S = {} THEN <<>>
    ELSE LET first == CHOOSE i \in S : \A j \in S : i.item_index <= j.item_index
         IN  <<first>> \o OrderByIndex(S \ {first})

(* Mutant: the rows come back in descending item_index *)
_load_batch_items_Reversed(d, batch_id, status_filter) ==
    IF status_filter # Null
    THEN OrderByIndex_Desc({i \in ItemsOf(d, batch_id) : i.status = status_filter})
    ELSE OrderByIndex_Desc(ItemsOf(d, batch_id))

(* Mutant: the status filter is dropped from the query *)
_load_batch_items_NoFilter(d, batch_id, status_filter) ==
    OrderByIndex(ItemsOf(d, batch_id))

_load_batch_items(d, batch_id, status_filter) ==
    IF status_filter # Null
    THEN OrderByIndex({i \in ItemsOf(d, batch_id) : i.status = status_filter})
    ELSE OrderByIndex(ItemsOf(d, batch_id))

_update_batch_status(d, batch_id, status, error_message, completed_at) ==
    [d EXCEPT !.import_batches =
        {IF b.id = batch_id
         THEN [b EXCEPT !.status = status, !.error_message = error_message,
                        !.completed_at = completed_at]
         ELSE b : b \in @}]

_update_item_status(d, item_id, status) ==
    [d EXCEPT !.import_batch_items =
        {IF i.id = item_id THEN [i EXCEPT !.status = status] ELSE i : i \in @}]

(* Mutant: the UPDATE writes the outcome and leaves the status alone *)
_complete_item_KeepStatus(d, item_id, result) ==
    [d EXCEPT !.import_batch_items =
        {IF i.id = item_id
         THEN [i EXCEPT !.processed_data = Json(result.processed_data),
                        !.target_table = result.target_table,
                        !.target_id = result.target_id,
                        !.processed_at = "now"]
         ELSE i : i \in @}]

_complete_item(d, item_id, result) ==
    [d EXCEPT !.import_batch_items =
        {IF i.id = item_id
         THEN [i EXCEPT !.status = COMPLETED,
                        !.processed_data = Json(result.processed_data),
                        !.target_table = result.target_table,
                        !.target_id = result.target_id,
                        !.processed_at = "now"]
         ELSE i : i \in @}]

(* Mutant: the UPDATE sets the status and leaves error_message alone *)
_fail_item_NoMessage(d, item_id, error_message) ==
    [d EXCEPT !.import_batch_items =
        {IF i.id = item_id THEN [i EXCEPT !.status = FAILED] ELSE i : i \in @}]

_fail_item(d, item_id, error_message) ==
    [d EXCEPT !.import_batch_items =
        {IF i.id = item_id
         THEN [i EXCEPT !.status = FAILED, !.error_message = error_message]
         ELSE i : i \in @}]

(* ImportContext.log: INSERT INTO import_logs on the run's connection *)
ctx_log(d, batch_id, item_id, level, message) ==
    [d EXCEPT !.import_logs = @ \cup
        {[batch_id |-> batch_id, item_id |-> item_id, log_level |-> level,
          message |-> message]}]

(* ImportContext.execute from process_item: one business row per call *)
ctx_execute(d, item_id) ==
    [d EXCEPT !.target_rows = @ \cup {[id |-> NewRowId(d), item_id |-> item_id]}]

(* Mutant: a failed item does not count as finished *)
is_complete_NotFailed(item) == item.status \in {COMPLETED, SKIPPED}

(* Mutant: no item counts as finished, the loop takes every item again *)
is_complete_Never(item) == FALSE

(* Mutant: only COMPLETED counts as finished *)
is_complete_OnlyCompleted(item) == item.status = COMPLETED

is_complete(item) == item.status \in {COMPLETED, FAILED, SKIPPED}

----------------------------------------------------------------------------
(* The orchestrator's position and locals *)

NoException == [type |-> Null, message |-> Null]

IdleRun ==
    [batch_id |-> NoBatch, continue_on_error |-> TRUE, items |-> <<>>, pos |-> 1,
     success_count |-> 0, failed_count |-> 0, ctx_item |-> NoItem,
     exc |-> NoException]

NoSummary ==
    [status |-> Null, total_items |-> 0, completed_items |-> 0, failed_items |-> 0,
     pending_items |-> 0]

(* Optional[float]: <<>> is None, <<v>> the value v. *)
None == <<>>

(* A BatchSummary object a caller holds, with the counts and the duration  *)
(* its properties read, and the values the properties returned so far.     *)
NoBatchSummary ==
    [total_items |-> 0, completed_items |-> 0, duration_seconds |-> None,
     read |-> {}, success_rate |-> <<0, 1>>, items_per_second |-> None]

NoRequest ==
    [batch_type |-> Null, items |-> <<>>, source_info |-> Null, metadata |-> Null]

NoCall ==
    [op |-> Null, batch_id |-> NoBatch, failed_items_only |-> FALSE,
     continue_on_error |-> TRUE, request |-> NoRequest,
     result |-> Null, value |-> NoBatch, summary |-> NoSummary]

Init ==
    /\ db = EmptyStore
    /\ tx = EmptyStore
    /\ pc = "idle"
    /\ run = IdleRun
    /\ call = NoCall
    /\ calls = {}
    /\ pre = EmptyStore
    /\ runs = 0
    /\ registry = Registry
    /\ batch_summary = NoBatchSummary

CountStatus(d, batch_id, status) ==
    Cardinality({i \in ItemsOf(d, batch_id) : i.status = status})

(* SELECT * FROM import_batch_summary WHERE id = batch_id *)
get_batch_summary(d, batch_id) ==
    [status |-> _load_batch(d, batch_id).status,
     total_items |-> Cardinality(ItemsOf(d, batch_id)),
     completed_items |-> CountStatus(d, batch_id, COMPLETED),
     failed_items |-> CountStatus(d, batch_id, FAILED),
     pending_items |-> CountStatus(d, batch_id, PENDING)]

----------------------------------------------------------------------------
(* create_batch *)

create_batch(d, req) ==
    InsertItems(InsertBatch(d, NewBatchId(d), req.batch_type, req.source_info,
                            req.metadata, NoBatch),
                NewBatchId(d), req.items, 0)

Roots(d) == {b \in d.import_batches : b.parent_batch_id = NoBatch}

CreateBatch ==
    /\ pc = "idle"
    /\ \E req \in CreateRequests :
        IF ~registry_has(req.batch_type)
        THEN /\ call' = [NoCall EXCEPT !.op = "create_batch", !.request = req,
                                       !.result = "ProcessorNotFoundError"]
             /\ UNCHANGED <<db, tx>>
        ELSE /\ Cardinality(Roots(db)) < MaxRoots
             /\ db' = create_batch(db, req)
             /\ tx' = db'
             /\ call' = [NoCall EXCEPT !.op = "create_batch", !.request = req,
                                       !.result = "ok", !.value = NewBatchId(db)]
    /\ pre' = db
    /\ pc' = "returned"
    /\ UNCHANGED <<run, calls, runs, registry, batch_summary>>

----------------------------------------------------------------------------
(* process_batch *)

(* Mutant: the run is started with the default continue_on_error *)
BeginRun_DefaultContinue(d, batch_id, continue_on_error) ==
    [tx |-> _update_batch_status(d, batch_id, PROCESSING, Null, Null),
     run |-> [IdleRun EXCEPT !.batch_id = batch_id]]

(* The statements of process_batch up to the try block, on a fresh         *)
(* connection whose view is the committed store d.                         *)
BeginRun(d, batch_id, continue_on_error) ==
    [tx |-> _update_batch_status(d, batch_id, PROCESSING, Null, Null),
     run |-> [IdleRun EXCEPT !.batch_id = batch_id,
                             !.continue_on_error = continue_on_error]]

ProcessBatch ==
    /\ pc = "idle"
    /\ \E batch_id \in BatchIds, continue_on_error \in BOOLEAN :
        LET base == [NoCall EXCEPT !.op = "process_batch", !.batch_id = batch_id,
                                   !.continue_on_error = continue_on_error]
        IN  IF ~BatchExists(db, batch_id)
            THEN /\ call' = [base EXCEPT !.result = "BatchNotFoundError"]
                 /\ pc' = "returned"
                 /\ UNCHANGED <<tx, run, runs>>
            ELSE IF registry_get(_load_batch(db, batch_id).batch_type)
                        = "ProcessorNotFoundError"
            THEN /\ call' = [base EXCEPT !.result = "ProcessorNotFoundError"]
                 /\ pc' = "returned"
                 /\ UNCHANGED <<tx, run, runs>>
            ELSE /\ runs < MaxRuns
                 /\ call' = [base EXCEPT !.result = "running"]
                 /\ tx' = BeginRun(db, batch_id, continue_on_error).tx
                 /\ run' = BeginRun(db, batch_id, continue_on_error).run
                 /\ pc' = "validate_batch"
                 /\ runs' = runs + 1
    /\ pre' = db
    /\ UNCHANGED <<db, calls, registry, batch_summary>>

Raise(type, message) == [type |-> type, message |-> message]

(* Mutant: the result of validate_batch is not looked at *)
ValidateBatch_IgnoreResult ==
    /\ pc = "validate_batch"
    /\ \E r \in {"valid", "invalid", "raise"} :
        CASE r = "valid" -> /\ pc' = "on_batch_start"
                            /\ calls' = calls \cup {<<"validate_batch", NoItem>>}
                            /\ UNCHANGED run
          [] r = "invalid" ->
                /\ calls' = calls \cup {<<"validate_batch", NoItem>>,
                                        <<"validate_batch returned False", NoItem>>}
                /\ pc' = "on_batch_start"
                /\ UNCHANGED run
          [] r = "raise" ->
                /\ calls' = calls \cup {<<"validate_batch", NoItem>>}
                /\ pc' = "batch_failed"
                /\ run' = [run EXCEPT !.exc =
                              Raise("Exception", "validate_batch raised")]
    /\ UNCHANGED <<db, tx, call, pre, runs, registry, batch_summary>>

(* processor.validate_batch(ctx) *)
ValidateBatch ==
    /\ pc = "validate_batch"
    /\ \E r \in {"valid", "invalid", "raise"} :
        CASE r = "valid" -> /\ pc' = "on_batch_start"
                            /\ calls' = calls \cup {<<"validate_batch", NoItem>>}
                            /\ UNCHANGED run
          [] r = "invalid" ->
                /\ calls' = calls \cup {<<"validate_batch", NoItem>>,
                                        <<"validate_batch returned False", NoItem>>}
                /\ pc' = "batch_failed"
                /\ run' = [run EXCEPT !.exc =
                              Raise("ProcessingError", "Batch validation failed")]
          [] r = "raise" ->
                /\ calls' = calls \cup {<<"validate_batch", NoItem>>}
                /\ pc' = "batch_failed"
                /\ run' = [run EXCEPT !.exc =
                              Raise("Exception", "validate_batch raised")]
    /\ UNCHANGED <<db, tx, call, pre, runs, registry, batch_summary>>

(* The lifecycle hooks of the example processors write one log entry each  *)
(* through the context, whose item is ctx_item.                            *)
on_batch_start(d, batch_id, ctx_item) ==
    ctx_log(d, batch_id, ctx_item, "info", "Starting customer data import batch")

on_batch_complete(d, batch_id, ctx_item, success) ==
    IF success
    THEN ctx_log(d, batch_id, ctx_item, "info",
                 "Customer import batch completed successfully")
    ELSE ctx_log(d, batch_id, ctx_item, "error",
                 "Customer import batch completed with errors")

(* processor.on_batch_start(ctx); items = self._load_batch_items(...) *)
OnBatchStart ==
    /\ pc = "on_batch_start"
    /\ calls' = calls \cup {<<"on_batch_start", NoItem>>}
    /\ \E r \in {"ok", "raise"} :
        IF r = "ok"
        THEN /\ pc' = "items"
             /\ tx' = on_batch_start(tx, run.batch_id, run.ctx_item)
             /\ run' = [run EXCEPT !.items = _load_batch_items(tx, run.batch_id, Null),
                                   !.pos = 1, !.success_count = 0,
                                   !.failed_count = 0]
        ELSE /\ pc' = "batch_failed"
             /\ run' = [run EXCEPT !.exc = Raise("Exception", "on_batch_start raised")]
             /\ UNCHANGED tx
    /\ UNCHANGED <<db, call, pre, runs, registry, batch_summary>>

(* The sample_data of the customer import example: two good customers,   *)
(* one whose email fails CustomerDataProcessor.validate_item, and one     *)
(* whose processing fails.                                                 *)
John == "{'email': 'john@example.com'}"
Jane == "{'email': 'jane@example.com'}"
InvalidEmail == "{'email': 'invalid-email'}"
Bob == "{'email': 'bob@example.com'}"

ScenarioRequest ==
    [batch_type |-> "customer_data", items |-> <<John, Jane, InvalidEmail, Bob>>,
     source_info |-> "{'source': 'example', 'file': 'sample_data.csv'}",
     metadata |-> "{'imported_by': 'demo_script'}"]

(* What the processor's per-item operations can do with an item: skip it   *)
(* (should_skip_item true), reject it (validate_item false), process it    *)
(* (process_item returns) or fail on it (process_item writes, then raises);*)
(* the should_skip_item and validate_item of the order_data processor can  *)
(* raise as well.                                                          *)
(* The sample customers behave as the example says, any other payload in   *)
(* any of the four ways.                                                   *)
Behaviours(item) ==
    CASE item.source_data \in {John, Jane} -> {"ok"}
      [] item.source_data = InvalidEmail -> {"invalid"}
      [] item.source_data = Bob -> {"raise"}
      [] _load_batch(db, item.batch_id).batch_type = "order_data" ->
            {"skip", "invalid", "ok", "raise", "skip_raise", "validate_raise"}
      [] OTHER -> {"skip", "invalid", "ok", "raise"}

(* What process_item returns for an item. *)
process_item_result(item) ==
    [processed_data |-> item.source_data, target_table |-> "customers",
     target_id |-> "customer-id"]

(* str(e) of the exceptions the per-item operations raise *)
ItemFailureMessages ==
    {"should_skip_item raised", "validate_item raised", "process_item raised"}

(* Mutant: only process_item is inside the per-item try block *)
except_handler_OnlyProcessItem(operation) ==
    IF operation = "process_item" THEN "item_failed" ELSE "batch_failed"

(* Where an exception raised by a per-item operation is caught: the try    *)
(* block of the loop body encloses all three operations.                   *)
except_handler(operation) == "item_failed"

(* Mutant: an item passed over with `continue` is counted as a success *)
Continue_Counted(r, item) ==
    [r EXCEPT !.pos = @ + 1, !.ctx_item = item.id, !.success_count = @ + 1]

(* ctx.item = item ... continue: the loop moves on, the counters are as    *)
(* they were.                                                              *)
Continue(r, item) == [r EXCEPT !.pos = @ + 1, !.ctx_item = item.id]

(* One pass through the body of `for item in items` up to its commit or    *)
(* to the point where an exception leaves the inner try block.             *)
ProcessItem ==
    /\ pc = "items"
    /\ run.pos <= Len(run.items)
    /\ LET item == run.items[run.pos]
           next == [run EXCEPT !.pos = @ + 1, !.ctx_item = item.id]
       IN  IF is_complete(item)
           THEN /\ run' = Continue(run, item)
                /\ UNCHANGED <<db, tx, pc, calls>>
           ELSE \E behaviour \in Behaviours(item) :
                CASE behaviour = "skip" ->
                      /\ calls' = calls \cup {<<"should_skip_item", item.id>>,
                                              <<"should_skip_item returned True",
                                                item.id>>}
                      /\ tx' = _update_item_status(tx, item.id, SKIPPED)
                      /\ run' = Continue(run, item)
                      /\ UNCHANGED <<db, pc>>
                  [] behaviour = "skip_raise" ->
                      /\ calls' = calls \cup {<<"should_skip_item", item.id>>}
                      /\ run' = [run EXCEPT !.ctx_item = item.id,
                                            !.exc = Raise("Exception",
                                                          "should_skip_item raised")]
                      /\ pc' = except_handler("should_skip_item")
                      /\ UNCHANGED <<db, tx>>
                  [] behaviour = "validate_raise" ->
                      /\ calls' = calls \cup {<<"should_skip_item", item.id>>,
                                              <<"validate_item", item.id>>}
                      /\ run' = [run EXCEPT !.ctx_item = item.id,
                                            !.exc = Raise("Exception",
                                                          "validate_item raised")]
                      /\ pc' = except_handler("validate_item")
                      /\ UNCHANGED <<db, tx>>
                  [] behaviour = "invalid" ->
                      /\ calls' = calls \cup {<<"should_skip_item", item.id>>,
                                              <<"validate_item", item.id>>,
                                              <<"validate_item returned False",
                                                item.id>>}
                      /\ tx' = ctx_log(_update_item_status(tx, item.id, SKIPPED),
                                       run.batch_id, item.id, "warning",
                                       "Item " \o ToString(item.item_index)
                                           \o " failed validation")
                      /\ run' = Continue(run, item)
                      /\ UNCHANGED <<db, pc>>
                  [] behaviour = "ok" ->
                      /\ calls' = calls \cup {<<"should_skip_item", item.id>>,
                                              <<"validate_item", item.id>>,
                                              <<"process_item", item.id>>}
                      /\ tx' = _complete_item(
                                  ctx_execute(
                                      _update_item_status(tx, item.id, PROCESSING),
                                      item.id),
                                  item.id, process_item_result(item))
                      /\ db' = tx'
                      /\ run' = [next EXCEPT !.success_count = @ + 1]
                      /\ UNCHANGED pc
                  [] behaviour = "raise" ->
                      /\ calls' = calls \cup {<<"should_skip_item", item.id>>,
                                              <<"validate_item", item.id>>,
                                              <<"process_item", item.id>>}
                      /\ tx' = ctx_execute(
                                  _update_item_status(tx, item.id, PROCESSING),
                                  item.id)
                      /\ run' = [run EXCEPT !.ctx_item = item.id,
                                            !.exc = Raise("Exception",
                                                          "process_item raised")]
                      /\ pc' = except_handler("process_item")
                      /\ UNCHANGED db
    /\ UNCHANGED <<call, pre, runs, registry, batch_summary>>

(* Mutant: the except block does not roll back before it marks the item *)
ItemFailed_NoRollback ==
    /\ pc = "item_failed"
    /\ tx' = _fail_item(tx, run.items[run.pos].id, run.exc.message)
    /\ db' = tx'
    /\ run' = [run EXCEPT !.failed_count = @ + 1]
    /\ pc' = "on_item_error"
    /\ UNCHANGED <<call, calls, pre, runs, registry, batch_summary>>

(* except Exception as e: rollback, count, _fail_item, commit *)
ItemFailed ==
    /\ pc = "item_failed"
    /\ tx' = _fail_item(db, run.items[run.pos].id, run.exc.message)
    /\ db' = tx'
    /\ run' = [run EXCEPT !.failed_count = @ + 1]
    /\ pc' = "on_item_error"
    /\ UNCHANGED <<call, calls, pre, runs, registry, batch_summary>>

(* Mutant: the hook's "stop" aborts whatever continue_on_error says *)
should_abort_IgnoreFlag(should_continue, continue_on_error) == ~should_continue

(* Mutant: the run aborts when either of the two says so *)
should_abort_Either(should_continue, continue_on_error) ==
    ~should_continue \/ ~continue_on_error

(* if not should_continue and not continue_on_error *)
should_abort(should_continue, continue_on_error) ==
    ~should_continue /\ ~continue_on_error

(* The ProcessingError raised when the run is aborted at `item`. *)
AbortError(item, e) ==
    Raise("ProcessingError",
          "Batch processing aborted at item " \o ToString(item.item_index)
              \o ": " \o e.message)

(* should_continue = processor.on_item_error(item, e, ctx) and the test    *)
(* that follows it.  "continue" is BaseProcessor.on_item_error, which logs *)
(* the error and returns True; "stop" is a hook that returns False.        *)
OnItemError ==
    /\ pc = "on_item_error"
    /\ LET item == run.items[run.pos]
       IN  \E r \in {"continue", "stop", "raise"} :
               CASE r = "continue" ->
                     /\ calls' = calls \cup {<<"on_item_error", item.id>>}
                     /\ tx' = ctx_log(tx, run.batch_id, run.ctx_item, "error",
                                      "Error processing item "
                                          \o ToString(item.item_index) \o ": "
                                          \o run.exc.message)
                     /\ IF should_abort(TRUE, run.continue_on_error)
                        THEN /\ run' = [run EXCEPT !.exc = AbortError(item, run.exc)]
                             /\ pc' = "batch_failed"
                        ELSE /\ run' = [run EXCEPT !.pos = @ + 1,
                                                   !.exc = NoException]
                             /\ pc' = "items"
                 [] r = "stop" ->
                     /\ calls' = calls \cup {<<"on_item_error", item.id>>,
                                             <<"on_item_error returned False",
                                               item.id>>}
                     /\ UNCHANGED tx
                     /\ IF should_abort(FALSE, run.continue_on_error)
                        THEN /\ run' = [run EXCEPT !.exc = AbortError(item, run.exc)]
                             /\ pc' = "batch_failed"
                        ELSE /\ run' = [run EXCEPT !.pos = @ + 1,
                                                   !.exc = NoException]
                             /\ pc' = "items"
                 [] r = "raise" ->
                     /\ calls' = calls \cup {<<"on_item_error", item.id>>}
                     /\ UNCHANGED tx
                     /\ run' = [run EXCEPT !.exc =
                                   Raise("Exception", "on_item_error raised")]
                     /\ pc' = "batch_failed"
    /\ UNCHANGED <<db, call, pre, runs, registry, batch_summary>>

(* Mutant: a run without a success fails the batch *)
final_status_NoSuccessFails(success_count, failed_count) ==
    IF success_count = 0 THEN FAILED ELSE COMPLETED

(* Mutant: the batch is COMPLETED whatever the counters say *)
final_status_AlwaysCompleted(success_count, failed_count) == COMPLETED

(* Mutant: any failed item fails the batch *)
final_status_AnyFailure(success_count, failed_count) ==
    IF failed_count = 0 THEN COMPLETED ELSE FAILED

(* Determine final batch status *)
final_status(success_count, failed_count) ==
    IF failed_count = 0 THEN COMPLETED
    ELSE IF success_count = 0 THEN FAILED
    ELSE COMPLETED

(* Mutant: the summary is assembled from the run's counters *)
Returned_FromCounters(d) ==
    [call EXCEPT !.result = "ok", !.value = run.batch_id,
                 !.summary = [get_batch_summary(d, run.batch_id) EXCEPT
                                 !.completed_items = run.success_count,
                                 !.failed_items = run.failed_count]]

(* The value the finished call hands back: process_batch returns the       *)
(* summary, reprocess_batch the new batch's id.                            *)
Returned(d) ==
    [call EXCEPT !.result = "ok", !.value = run.batch_id,
                 !.summary = get_batch_summary(d, run.batch_id)]

(* Mutant: every failure is handed to the caller as a ProcessingError *)
Raised_AsProcessingError(exc) ==
    [call EXCEPT !.result = "ProcessingError", !.value = NoBatch]

(* The call ends with the exception: `raise` *)
Raised(exc) ==
    [call EXCEPT !.result = exc.type, !.value = NoBatch]

(* Mutant: on_batch_complete is always told the batch succeeded *)
complete_success_Always(final) == TRUE

(* The argument of on_batch_complete: final_status == BatchStatus.COMPLETED *)
complete_success(final) == final = COMPLETED

(* After the loop: final status, on_batch_complete, status write, commit,  *)
(* summary.  The hook may raise, and so may the status write.              *)
CompleteBatch ==
    /\ pc = "items"
    /\ run.pos > Len(run.items)
    /\ calls' = calls \cup {<<"on_batch_complete", NoItem>>}
                    \cup IF complete_success(
                                final_status(run.success_count, run.failed_count))
                         THEN {<<"on_batch_complete success=True", NoItem>>}
                         ELSE {}
    /\ \E r \in {"ok", "raise", "write_raise"} :
        CASE r = "ok" ->
             /\ tx' = _update_batch_status(
                          on_batch_complete(
                              tx, run.batch_id, run.ctx_item,
                              complete_success(
                                  final_status(run.success_count,
                                               run.failed_count))),
                          run.batch_id,
                          final_status(run.success_count, run.failed_count),
                          Null, "now")
             /\ db' = tx'
             /\ call' = Returned(db')
             /\ pc' = "returned"
             /\ UNCHANGED run
          [] r = "raise" ->
             /\ run' = [run EXCEPT !.exc =
                           Raise("Exception", "on_batch_complete raised")]
             /\ pc' = "batch_failed"
             /\ UNCHANGED <<db, tx, call>>
          [] r = "write_raise" ->
             /\ tx' = on_batch_complete(
                          tx, run.batch_id, run.ctx_item,
                          complete_success(
                              final_status(run.success_count, run.failed_count)))
             /\ run' = [run EXCEPT !.exc =
                           Raise("DatabaseError", "status write failed")]
             /\ pc' = "batch_failed"
             /\ UNCHANGED <<db, call>>
    /\ UNCHANGED <<pre, runs, registry, batch_summary>>

(* Mutant: the except block re-raises without marking the batch *)
BatchFailed_NoStatus ==
    /\ pc = "batch_failed"
    /\ tx' = db
    /\ call' = Raised(run.exc)
    /\ pc' = "returned"
    /\ UNCHANGED <<db, run, calls, pre, runs, registry, batch_summary>>

(* Mutant: the except block commits without rolling back first *)
BatchFailed_NoRollback ==
    /\ pc = "batch_failed"
    /\ tx' = _update_batch_status(tx, run.batch_id, FAILED, run.exc.message, Null)
    /\ db' = tx'
    /\ call' = Raised(run.exc)
    /\ pc' = "returned"
    /\ UNCHANGED <<run, calls, pre, runs, registry, batch_summary>>

(* except Exception as e: rollback, batch FAILED with str(e), commit, raise *)
BatchFailed ==
    /\ pc = "batch_failed"
    /\ tx' = _update_batch_status(db, run.batch_id, FAILED, run.exc.message, Null)
    /\ db' = tx'
    /\ call' = Raised(run.exc)
    /\ pc' = "returned"
    /\ UNCHANGED <<run, calls, pre, runs, registry, batch_summary>>

(* The orchestrating process dies: its connection's open transaction is    *)
(* lost, nothing else is.                                                  *)
Crash ==
    /\ pc \notin {"idle", "returned"}
    /\ tx' = db
    /\ call' = [call EXCEPT !.result = "crashed"]
    /\ pc' = "returned"
    /\ UNCHANGED <<db, run, calls, pre, runs, registry, batch_summary>>

(* The caller has the call's outcome; the orchestrator's locals are gone. *)
Return ==
    /\ pc = "returned"
    /\ pc' = "idle"
    /\ run' = IdleRun
    /\ call' = NoCall
    /\ calls' = {}
    /\ pre' = EmptyStore
    /\ UNCHANGED <<db, tx, runs, registry, batch_summary>>

----------------------------------------------------------------------------
(* reprocess_batch *)

(* Mutant: the selected items are moved to the new batch, not copied *)
CopyItems_Move(d, new_batch_id, items, idx) ==
    [d EXCEPT !.import_batch_items =
        {IF \E k \in 1..Len(items) : items[k].id = i.id
         THEN [i EXCEPT !.batch_id = new_batch_id, !.status = PENDING,
                        !.item_index =
                            (CHOOSE k \in 1..Len(items) : items[k].id = i.id) - 1,
                        !.error_message = Null]
         ELSE i : i \in @}]

(* INSERT the new batch and a copy of each selected item *)
RECURSIVE CopyItems(_, _, _, _)
CopyItems(d, new_batch_id, items, idx) ==
    IF idx >= Len(items) THEN d
    ELSE CopyItems(InsertItem(d, new_batch_id, idx, items[idx + 1].source_data),
                   new_batch_id, items, idx + 1)

ReprocessCandidates(d, batch_id, failed_items_only) ==
    IF failed_items_only
    THEN _load_batch_items(d, batch_id, FAILED)
    ELSE _load_batch_items(d, batch_id, Null)

(* Mutant: the original's selected items are marked as taken over *)
reprocess_create_Consume(d, batch_id, items) ==
    LET original_batch == _load_batch(d, batch_id)
        created == CopyItems(InsertBatch(d, NewBatchId(d),
                                         original_batch.batch_type,
                                         original_batch.source_info,
                                         original_batch.metadata, batch_id),
                             NewBatchId(d), items, 0)
    IN  [created EXCEPT !.import_batch_items =
            {IF \E k \in 1..Len(items) : items[k].id = i.id
             THEN [i EXCEPT !.status = SKIPPED] ELSE i : i \in @}]

(* Mutant: the new batch's own id is written as its parent_batch_id *)
reprocess_create_SelfParent(d, batch_id, items) ==
    LET original_batch == _load_batch(d, batch_id)
    IN  CopyItems(InsertBatch(d, NewBatchId(d), original_batch.batch_type,
                              original_batch.source_info, original_batch.metadata,
                              NewBatchId(d)),
                  NewBatchId(d), items, 0)

(* Mutant: the new batch is inserted without the original's metadata *)
reprocess_create_NoMetadata(d, batch_id, items) ==
    LET original_batch == _load_batch(d, batch_id)
    IN  CopyItems(InsertBatch(d, NewBatchId(d), original_batch.batch_type,
                              original_batch.source_info, Null, batch_id),
                  NewBatchId(d), items, 0)

reprocess_create(d, batch_id, items) ==
    LET original_batch == _load_batch(d, batch_id)
    IN  CopyItems(InsertBatch(d, NewBatchId(d), original_batch.batch_type,
                              original_batch.source_info, original_batch.metadata,
                              batch_id),
                  NewBatchId(d), items, 0)

ReprocessBatch ==
    /\ pc = "idle"
    /\ \E batch_id \in BatchIds, failed_items_only \in BOOLEAN,
          continue_on_error \in BOOLEAN :
        LET base == [NoCall EXCEPT !.op = "reprocess_batch", !.batch_id = batch_id,
                                   !.failed_items_only = failed_items_only,
                                   !.continue_on_error = continue_on_error]
        IN  IF ~BatchExists(db, batch_id)
            THEN /\ call' = [base EXCEPT !.result = "BatchNotFoundError"]
                 /\ pc' = "returned"
                 /\ UNCHANGED <<db, tx, run, runs>>
            ELSE LET items == ReprocessCandidates(db, batch_id, failed_items_only)
                 IN  IF items = <<>>
                     THEN /\ call' = [base EXCEPT !.result = "ok", !.value = batch_id]
                          /\ pc' = "returned"
                          /\ UNCHANGED <<db, tx, run, runs>>
                     ELSE /\ runs < MaxRuns
                          /\ runs' = runs + 1
                          /\ db' = reprocess_create(db, batch_id, items)
                          /\ IF registry_get(_load_batch(db, batch_id).batch_type)
                                    = "ProcessorNotFoundError"
                             THEN /\ call' = [base EXCEPT
                                                !.result = "ProcessorNotFoundError"]
                                  /\ tx' = db'
                                  /\ pc' = "returned"
                                  /\ UNCHANGED run
                             ELSE /\ call' = [base EXCEPT !.result = "running"]
                                  /\ tx' = BeginRun(db', NewBatchId(db),
                                                    continue_on_error).tx
                                  /\ run' = BeginRun(db', NewBatchId(db),
                                                     continue_on_error).run
                                  /\ pc' = "validate_batch"
    /\ pre' = db
    /\ UNCHANGED <<calls, registry, batch_summary>>

----------------------------------------------------------------------------
(* get_batch_summary called by a client: the view's row, or               *)
(* BatchNotFoundError when the view has no row for the id.                 *)
GetBatchSummary ==
    /\ pc = "idle"
    /\ \E batch_id \in BatchIds :
        LET base == [NoCall EXCEPT !.op = "get_batch_summary", !.batch_id = batch_id]
        IN  IF ~BatchExists(db, batch_id)
            THEN call' = [base EXCEPT !.result = "BatchNotFoundError"]
            ELSE call' = [base EXCEPT !.result = "ok", !.value = batch_id,
                                      !.summary = get_batch_summary(db, batch_id)]
    /\ pre' = db
    /\ pc' = "returned"
    /\ UNCHANGED <<db, tx, run, calls, runs, registry, batch_summary>>

----------------------------------------------------------------------------
(* BatchManager(connection_string, registry): a manager is constructed on  *)
(* the same store with another registry (the store outlives the process,   *)
(* the registry does not).                                                 *)
NewManager ==
    /\ pc = "idle"
    /\ registry' \in Registries \ {registry}
    /\ UNCHANGED <<db, tx, pc, run, call, calls, pre, runs, batch_summary>>

----------------------------------------------------------------------------

Next ==
    \/ NewManager
    \/ GetBatchSummary
    \/ CreateBatch
    \/ ProcessBatch
    \/ ValidateBatch
    \/ OnBatchStart
    \/ ProcessItem
    \/ ItemFailed
    \/ OnItemError
    \/ CompleteBatch
    \/ BatchFailed
    \/ Crash
    \/ ReprocessBatch
    \/ Return

Spec == Init /\ [][Next]_vars

(* The statements of a process_batch call: the orchestrator is sequential  *)
(* code, so a call whose hooks return goes on to its next statement.       *)
RunStep ==
    \/ ValidateBatch \/ OnBatchStart \/ ProcessItem \/ ItemFailed
    \/ OnItemError \/ CompleteBatch \/ BatchFailed

SpecFair == Spec /\ WF_vars(RunStep)

(* The example's run: the store holds the batch create_batch made of       *)
(* sample_data.                                                            *)
InitScenario ==
    /\ db = create_batch(EmptyStore, ScenarioRequest)
    /\ tx = db
    /\ pc = "idle"
    /\ run = IdleRun
    /\ call = NoCall
    /\ calls = {}
    /\ pre = EmptyStore
    /\ runs = 0
    /\ registry = Registry
    /\ batch_summary = NoBatchSummary

SpecScenario == InitScenario /\ [][Next]_vars

(* The committed store after create_batch of two items and one             *)
(* process_batch run (continue_on_error, default on_item_error) in which   *)
(* the second item's process_item raised and the first item's returned     *)
(* (first = "ok") or raised as well (first = "raise").                     *)
FirstRun(first) ==
    LET request == [batch_type |-> "customer_data",
                    items |-> ItemList("{'email': 'a'}", 2),
                    source_info |-> "{'source': 'example'}", metadata |-> Null]
        created == create_batch(EmptyStore, request)
        items == _load_batch_items(created, 1, Null)
        started == on_batch_start(BeginRun(created, 1, TRUE).tx, 1, NoItem)
        error(d, item) ==
            ctx_log(d, 1, item.id, "error",
                    "Error processing item " \o ToString(item.item_index)
                        \o ": process_item raised")
        one == IF first = "ok"
               THEN _complete_item(
                        ctx_execute(_update_item_status(started, items[1].id,
                                                        PROCESSING),
                                    items[1].id),
                        items[1].id, process_item_result(items[1]))
               ELSE _fail_item(created, items[1].id, "process_item raised")
        two == error(_fail_item(one, items[2].id, "process_item raised"), items[2])
        final == IF first = "ok" THEN final_status(1, 1) ELSE final_status(0, 2)
    IN  _update_batch_status(
            on_batch_complete(two, 1, items[2].id, complete_success(final)),
            1, final, Null, "now")

(* reprocess_batch is studied on a batch that has been run once. *)
InitReprocess ==
    /\ db \in {FirstRun("ok"), FirstRun("raise")}
    /\ tx = db
    /\ pc = "idle"
    /\ run = IdleRun
    /\ call = NoCall
    /\ calls = {}
    /\ pre = EmptyStore
    /\ runs = 0
    /\ registry = Registry
    /\ batch_summary = NoBatchSummary

SpecReprocess == InitReprocess /\ [][Next]_vars

----------------------------------------------------------------------------
(* BatchSummary.success_rate and BatchSummary.items_per_second.  A float   *)
(* is the exact fraction <<numerator, denominator>> in lowest terms, a     *)
(* duration a whole number of milliseconds.                                *)

MaxTotal == 3
MaxSeconds == 2

RECURSIVE Gcd(_, _)
Gcd(a, b) == IF b = 0 THEN a ELSE Gcd(b, a % b)

(* n / d for n >= 0 and d > 0 *)
Frac(n, d) == <<n \div Gcd(n, d), d \div Gcd(n, d)>>

(* The durations a summary row may carry: none, a negative one (clock      *)
(* skew), zero, half a second and whole seconds.                           *)
Durations ==
    {None, <<-1000>>, <<0>>, <<500>>} \cup {<<1000 * k>> : k \in 1..MaxSeconds}

BatchSummaries ==
    {s \in
     {[NoBatchSummary EXCEPT !.total_items = t, !.completed_items = c,
                            !.duration_seconds = d] :
        t \in 0..MaxTotal, c \in 0..MaxTotal, d \in Durations} :
     s.completed_items <= s.total_items}

(* Mutant: the ratio is returned without the factor 100 *)
success_rate_NoScale(s) ==
    IF s.total_items = 0 THEN Frac(0, 1)
    ELSE Frac(s.completed_items, s.total_items)

success_rate(s) ==
    IF s.total_items = 0 THEN Frac(0, 1)
    ELSE Frac(s.completed_items * 100, s.total_items)

(* `if self.duration_seconds and self.duration_seconds > 0` *)
items_per_second(s) ==
    IF s.duration_seconds = None THEN None
    ELSE IF s.duration_seconds[1] = 0 THEN None
    ELSE IF s.duration_seconds[1] > 0
         THEN <<Frac(s.total_items * 1000, s.duration_seconds[1])>>
         ELSE None

SuccessRate ==
    /\ "success_rate" \notin batch_summary.read
    /\ batch_summary' = [batch_summary EXCEPT
                            !.read = @ \cup {"success_rate"},
                            !.success_rate = success_rate(batch_summary)]
    /\ UNCHANGED <<db, tx, pc, run, call, calls, pre, runs, registry>>

ItemsPerSecond ==
    /\ "items_per_second" \notin batch_summary.read
    /\ batch_summary' = [batch_summary EXCEPT
                            !.read = @ \cup {"items_per_second"},
                            !.items_per_second = items_per_second(batch_summary)]
    /\ UNCHANGED <<db, tx, pc, run, call, calls, pre, runs, registry>>

InitSummary ==
    /\ db = EmptyStore
    /\ tx = EmptyStore
    /\ pc = "idle"
    /\ run = IdleRun
    /\ call = NoCall
    /\ calls = {}
    /\ pre = EmptyStore
    /\ runs = 0
    /\ registry = Registry
    /\ batch_summary \in BatchSummaries

NextSummary == SuccessRate \/ ItemsPerSecond

SpecSummary == InitSummary /\ [][NextSummary]_vars

----------------------------------------------------------------------------
(* Properties *)

TerminalBatchStatuses == {COMPLETED, FAILED}

ItemHooks == {"should_skip_item", "validate_item", "process_item", "on_item_error"}

StatusRank(status) ==
    CASE status = PENDING -> 0
      [] status = PROCESSING -> 1
      [] OTHER -> 2

BatchStatus(d, batch_id) == _load_batch(d, batch_id).status

RowsOf(d, item_id) == {r \in d.target_rows : r.item_id = item_id}

Current(d, item) == CHOOSE i \in d.import_batch_items : i.id = item.id

(* The call in progress (or just returned) is a process_batch run that     *)
(* handed back its summary, directly or from inside reprocess_batch.       *)
RunReturned == pc = "returned" /\ call.result = "ok" /\ run.batch_id # NoBatch

(* The candidate items of reprocess_batch(batch_id, failed_items_only),    *)
(* read from the store d.                                                  *)
CandSet(d, batch_id, failed_items_only) ==
    {o \in ItemsOf(d, batch_id) : failed_items_only => o.status = FAILED}

(* The position of a candidate among the candidates, by item_index. *)
CandRank(C, o) == Cardinality({c \in C : c.item_index < o.item_index})

(* reprocess_batch has just committed its new batch run.batch_id, derived  *)
(* from call.batch_id, and has not started on its items.                   *)
JustReprocessed == call.op = "reprocess_batch" /\ pc = "validate_batch"

(* C1: a batch's committed status only moves PENDING -> PROCESSING ->      *)
(* {COMPLETED, FAILED}: compared with the committed store at the start of  *)
(* the call in progress, no batch has moved backwards, and a batch that    *)
(* was COMPLETED or FAILED has the status it had.                          *)
C1_BatchStatusMonotonic ==
    \A b \in pre.import_batches : \A c \in db.import_batches :
        c.id = b.id =>
            /\ StatusRank(b.status) <= StatusRank(c.status)
            /\ b.status \in TerminalBatchStatuses => c.status = b.status

(* C2: an item that was COMPLETED, FAILED or SKIPPED in the committed      *)
(* store when the call began is the same row in every committed state of   *)
(* the call, and none of should_skip_item, validate_item, process_item and *)
(* on_item_error is invoked for it.                                        *)
C2_IdempotentReentry ==
    \A i \in pre.import_batch_items :
        i.status \in {COMPLETED, FAILED, SKIPPED} =>
            /\ i \in db.import_batch_items
            /\ \A h \in ItemHooks : <<h, i.id>> \notin calls

(* C2 witness: a process_batch call returned on a half-run batch: one item *)
(* was terminal before the call, another was not and is now.               *)
C2_Witness ==
    /\ pc = "returned" /\ call.op = "process_batch" /\ call.result = "ok"
    /\ \E i, j \in ItemsOf(pre, call.batch_id) :
        /\ is_complete(i)
        /\ ~is_complete(j)
        /\ is_complete(Current(db, j))

(* C3: a committed FAILED item has none of its transform's writes in the   *)
(* committed store and carries the exception's message; once the except    *)
(* block has run for an item, that item is committed FAILED with the       *)
(* message of the exception that was raised.                               *)
C3_FailureAtomicity ==
    /\ \A i \in db.import_batch_items :
        i.status = FAILED =>
            /\ RowsOf(db, i.id) = {}
            /\ i.error_message \in ItemFailureMessages
    /\ pc = "on_item_error" =>
        LET item == Current(db, run.items[run.pos])
        IN  /\ item.status = FAILED
            /\ item.error_message = run.exc.message
            /\ RowsOf(db, item.id) = {}
    /\ RunReturned =>
        \A i \in ItemsOf(db, run.batch_id) :
            <<"process_item", i.id>> \in calls => i.status \in {COMPLETED, FAILED}

(* C3 witness: the transform of an item wrote and raised, and the except   *)
(* block has committed the item as FAILED.                                 *)
C3_Witness ==
    /\ pc = "on_item_error"
    /\ <<"process_item", run.items[run.pos].id>> \in calls
    /\ Current(db, run.items[run.pos]).status = FAILED

(* C4: in every committed state, crashes included, an item is COMPLETED    *)
(* exactly when the write of its transform is committed, and that write    *)
(* is there once.                                                          *)
C4_SuccessAtomicity ==
    \A i \in db.import_batch_items :
        /\ i.status = COMPLETED <=> RowsOf(db, i.id) # {}
        /\ Cardinality(RowsOf(db, i.id)) <= 1

(* C4 witness: the orchestrator crashed with one item committed COMPLETED  *)
(* and another item of the batch not yet finished.                         *)
C4_Witness ==
    /\ pc = "returned" /\ call.result = "crashed"
    /\ \E i, j \in ItemsOf(db, run.batch_id) :
        /\ i.status = COMPLETED /\ RowsOf(db, i.id) # {}
        /\ j.status = PENDING /\ <<"process_item", j.id>> \in calls

(* The items of the run's batch that this run moved to `status`. *)
MovedTo(status) ==
    {i \in ItemsOf(db, run.batch_id) :
        /\ i.status = status
        /\ \A o \in pre.import_batch_items : o.id = i.id => o.status # status}

(* C5 as claimed: whenever process_batch finishes and leaves the batch in  *)
(* a terminal status, with s the number of its COMPLETED items and f the   *)
(* number of its FAILED items, the batch is FAILED iff s = 0 and f > 0,    *)
(* and COMPLETED otherwise.                                                *)
C5_TerminalStatusRule_AsClaimed ==
    (pc = "returned" /\ run.batch_id # NoBatch /\ call.result # "crashed") =>
        LET status == BatchStatus(db, run.batch_id)
            s == CountStatus(db, run.batch_id, COMPLETED)
            f == CountStatus(db, run.batch_id, FAILED)
        IN  status \in TerminalBatchStatuses =>
                (status = FAILED <=> (s = 0 /\ f > 0))

(* C5 amended: whenever process_batch returns its summary, with s the      *)
(* number of items this run marked COMPLETED and f the number it marked    *)
(* FAILED, the batch is FAILED if s = 0 and f > 0, and COMPLETED otherwise.*)
C5_TerminalStatusRule ==
    RunReturned =>
        LET status == BatchStatus(db, run.batch_id)
            s == Cardinality(MovedTo(COMPLETED))
            f == Cardinality(MovedTo(FAILED))
        IN  /\ status \in TerminalBatchStatuses
            /\ status = FAILED <=> (s = 0 /\ f > 0)

(* C5 witness: a run returned with failures and no success (batch FAILED)  *)
(* on a batch that also holds an item finished by an earlier run.          *)
C5_Witness ==
    /\ RunReturned
    /\ MovedTo(COMPLETED) = {} /\ MovedTo(FAILED) # {}
    /\ BatchStatus(db, run.batch_id) = FAILED
    /\ \E o \in ItemsOf(pre, run.batch_id) : is_complete(o)

(* C6: when process_batch returns, every item it skipped (should_skip_item *)
(* true, or validate_item false, so that process_item was never called for *)
(* it) is committed SKIPPED, whatever happened to the items after it.      *)
(* Stated for the calls that return their summary.                         *)
C6_SkippedItemsCommitted ==
    RunReturned =>
        \A i \in ItemsOf(db, run.batch_id) :
            (<<"should_skip_item", i.id>> \in calls
                /\ <<"process_item", i.id>> \notin calls)
            => i.status = SKIPPED

ScenarioBatch == NewBatchId(EmptyStore)

(* C7: the example's batch (John and Jane succeed, the invalid email fails *)
(* validation, Bob's transform raises), processed with continue_on_error:  *)
(* the summary is COMPLETED with 2 completed and 1 failed items, exactly   *)
(* one item is SKIPPED and none is PENDING; reprocess_batch with           *)
(* failed_items_only then yields a new batch of exactly one item, with     *)
(* Bob's source_data.                                                      *)
C7_Scenario ==
    /\ (/\ RunReturned /\ call.op = "process_batch"
        /\ run.batch_id = ScenarioBatch /\ run.continue_on_error
        /\ \A i \in ItemsOf(pre, ScenarioBatch) : i.status = PENDING)
       => /\ call.summary.status = COMPLETED
          /\ call.summary.completed_items = 2
          /\ call.summary.failed_items = 1
          /\ CountStatus(db, ScenarioBatch, SKIPPED) = 1
          /\ CountStatus(db, ScenarioBatch, PENDING) = 0
    /\ (/\ RunReturned /\ call.op = "reprocess_batch"
        /\ call.batch_id = ScenarioBatch /\ call.failed_items_only
        /\ BatchStatus(pre, ScenarioBatch) = COMPLETED
        /\ CountStatus(pre, ScenarioBatch, FAILED) = 1)
       => /\ call.value # ScenarioBatch
          /\ Cardinality(ItemsOf(db, call.value)) = 1
          /\ \A i \in ItemsOf(db, call.value) :
                \E o \in ItemsOf(pre, ScenarioBatch) :
                    o.status = FAILED /\ o.source_data = i.source_data

(* C8: every batch derived by reprocess_batch names its original as parent *)
(* and has the original's batch_type, source_info and metadata, and its    *)
(* items carry source_data of the original's items; when it is created,    *)
(* each of its items is PENDING, holds the source_data of the candidate it *)
(* was copied from, and none of the outcome or error fields.               *)
C8_LineageIntegrity ==
    /\ \A b \in db.import_batches :
        b.parent_batch_id # NoBatch =>
            \E a \in db.import_batches :
                /\ a.id = b.parent_batch_id
                /\ b.batch_type = a.batch_type
                /\ b.source_info = a.source_info
                /\ b.metadata = a.metadata
                /\ \A i \in ItemsOf(db, b.id) :
                    \E o \in ItemsOf(db, a.id) : o.source_data = i.source_data
    /\ JustReprocessed =>
        LET C == CandSet(pre, call.batch_id, call.failed_items_only)
        IN  /\ BatchExists(db, run.batch_id)
            /\ ~BatchExists(pre, run.batch_id)
            /\ _load_batch(db, run.batch_id).parent_batch_id = call.batch_id
            /\ _load_batch(db, run.batch_id).status = PENDING
            /\ \A i \in ItemsOf(db, run.batch_id) :
                /\ i.status = PENDING
                /\ i.processed_data = Null /\ i.target_table = Null
                /\ i.target_id = Null /\ i.error_message = Null
                /\ i.processed_at = Null
                /\ \E o \in C : /\ CandRank(C, o) = i.item_index
                                /\ o.source_data = i.source_data

(* C8 witness: reprocess_batch has derived a batch from an original that   *)
(* carries metadata and a finished item with outcome fields.               *)
C8_Witness ==
    /\ JustReprocessed
    /\ _load_batch(db, run.batch_id).metadata # "{}"
    /\ \E o \in ItemsOf(pre, call.batch_id) : o.status = COMPLETED

(* C9: the items of the batch reprocess_batch creates correspond one to    *)
(* one to the candidates (the FAILED items of the original with            *)
(* failed_items_only, all its items otherwise), with item_index 0..k-1     *)
(* given in ascending order of the originals' item_index.                  *)
C9_CandidateSelection ==
    JustReprocessed =>
        LET C == CandSet(pre, call.batch_id, call.failed_items_only)
            N == ItemsOf(db, run.batch_id)
        IN  /\ Cardinality(N) = Cardinality(C)
            /\ {i.item_index : i \in N} = 0..(Cardinality(C) - 1)
            /\ \A o \in C : \E i \in N :
                /\ i.item_index = CandRank(C, o)
                /\ i.source_data = o.source_data
            /\ call.failed_items_only =>
                \A o \in ItemsOf(pre, call.batch_id) :
                    o.status \in {COMPLETED, SKIPPED} => o \notin C

(* C9 witness: failed items only, the original holds a finished item that  *)
(* is no candidate, and a candidate whose index is not 0.                  *)
C9_Witness ==
    /\ JustReprocessed /\ call.failed_items_only
    /\ \E o \in ItemsOf(pre, call.batch_id) : o.status \in {COMPLETED, SKIPPED}
    /\ \E o \in CandSet(pre, call.batch_id, TRUE) : o.item_index > 0

(* C10: reprocess_batch on an existing batch with no candidate returns the *)
(* batch's own id, leaves the store as it was (no batch, no item) and      *)
(* invokes no processor operation.                                         *)
C10_NoOpReprocess ==
    (/\ call.op = "reprocess_batch"
     /\ BatchExists(pre, call.batch_id)
     /\ CandSet(pre, call.batch_id, call.failed_items_only) = {})
    => /\ pc = "returned"
       /\ call.result = "ok"
       /\ call.value = call.batch_id
       /\ db = pre
       /\ calls = {}
       /\ run = IdleRun

(* C10 witness: failed items only, on a batch that has items, none FAILED. *)
C10_Witness ==
    /\ pc = "returned" /\ call.op = "reprocess_batch" /\ call.failed_items_only
    /\ BatchExists(pre, call.batch_id)
    /\ ItemsOf(pre, call.batch_id) # {}
    /\ CandSet(pre, call.batch_id, TRUE) = {}
    /\ call.value = call.batch_id

(* C11: in every committed state of a reprocess_batch call, whatever its   *)
(* outcome (no-op, summary, exception, crash), the row of the original     *)
(* batch and the rows of its items are the rows they were when the call    *)
(* began.                                                                  *)
C11_OriginalUntouched ==
    (call.op = "reprocess_batch" /\ BatchExists(pre, call.batch_id)) =>
        /\ _load_batch(db, call.batch_id) = _load_batch(pre, call.batch_id)
        /\ ItemsOf(db, call.batch_id) = ItemsOf(pre, call.batch_id)

(* C11 witness: reprocess_batch returned a new batch whose run completed   *)
(* an item copied from a FAILED item of the original.                      *)
C11_Witness ==
    /\ pc = "returned" /\ call.op = "reprocess_batch" /\ call.result = "ok"
    /\ call.value # call.batch_id
    /\ \E o \in ItemsOf(db, call.batch_id) :
        /\ o.status = FAILED /\ o.error_message # Null
        /\ \E i \in ItemsOf(db, call.value) :
            i.status = COMPLETED /\ i.source_data = o.source_data

(* What a call hands to its caller when process_batch fails inside it. *)
RunFailures == {"ProcessingError", "Exception", "DatabaseError"}

(* reprocess_batch was called on an existing batch with candidates. *)
ReprocessWithCandidates ==
    /\ call.op = "reprocess_batch"
    /\ BatchExists(pre, call.batch_id)
    /\ CandSet(pre, call.batch_id, call.failed_items_only) # {}

(* C12 as claimed: the only failure reprocess_batch surfaces to its caller *)
(* is BatchNotFoundError: a call that finishes either returns or raises    *)
(* BatchNotFoundError.                                                     *)
C12_ReprocessOnlyNotFound_AsClaimed ==
    (call.op = "reprocess_batch" /\ pc = "returned" /\ call.result # "crashed")
        => call.result \in {"ok", "BatchNotFoundError"}

(* C12 amended: for an existing batch with candidates, reprocess_batch     *)
(* commits exactly one new batch, child of the original, and runs          *)
(* process_batch on it with the given continue_on_error; it returns the    *)
(* new batch's id when that run returns, and otherwise raises what the run *)
(* raised: ProcessorNotFoundError (new batch left PENDING, no hook         *)
(* invoked) or the run's exception (new batch FAILED).                     *)
C12_ReprocessDrivesNewBatch ==
    ReprocessWithCandidates =>
        LET new == NewBatchId(pre)
        IN  /\ {b.id : b \in db.import_batches} \ {b.id : b \in pre.import_batches}
                    = {new}
            /\ _load_batch(db, new).parent_batch_id = call.batch_id
            /\ run.batch_id # NoBatch =>
                /\ run.batch_id = new
                /\ run.continue_on_error = call.continue_on_error
            /\ pc = "returned" =>
                /\ call.result \in {"ok", "ProcessorNotFoundError", "crashed"}
                                        \cup RunFailures
                /\ call.result = "ok" =>
                    /\ call.value = new
                    /\ BatchStatus(db, new) \in TerminalBatchStatuses
                /\ call.result = "ProcessorNotFoundError" =>
                    /\ BatchStatus(db, new) = PENDING
                    /\ calls = {}
                /\ call.result \in RunFailures =>
                    /\ BatchStatus(db, new) = FAILED
                    /\ call.result = run.exc.type

(* C12 witness: reprocess_batch with continue_on_error false raised the    *)
(* ProcessingError of its new batch's aborted run.                         *)
C12_Witness ==
    /\ ReprocessWithCandidates /\ pc = "returned"
    /\ ~call.continue_on_error
    /\ call.result = "ProcessingError"
    /\ BatchStatus(db, NewBatchId(pre)) = FAILED
    /\ \E i \in ItemsOf(db, NewBatchId(pre)) : i.status = FAILED

(* C13: create_batch called with an empty items sequence fails with        *)
(* ValidationError and persists no batch.                                  *)
C13_EmptyItemsRejected ==
    (call.op = "create_batch" /\ call.request.items = <<>>) =>
        /\ call.result = "ValidationError"
        /\ db = pre

(* C14: create_batch with a batch_type that has no registered processor    *)
(* fails with ProcessorNotFoundError and leaves the store as it was: no    *)
(* batch and no item is created.                                           *)
C14_UnknownKindRejected ==
    (call.op = "create_batch" /\ call.request.batch_type \notin registry) =>
        /\ pc = "returned"
        /\ call.result = "ProcessorNotFoundError"
        /\ db = pre
        /\ tx = db

(* C14 witness: create_batch was refused, for a type another manager had   *)
(* a processor for, on a store that holds a batch.                         *)
C14_Witness ==
    /\ pc = "returned" /\ call.op = "create_batch"
    /\ call.result = "ProcessorNotFoundError"
    /\ call.request.batch_type \in Registry
    /\ db.import_batches # {}

(* The item_index values of every batch of store d are 0..n-1, each once. *)
DenseIndexes(d) ==
    \A b \in d.import_batches :
        LET I == ItemsOf(d, b.id)
        IN  /\ {i.item_index : i \in I} = 0..(Cardinality(I) - 1)
            /\ \A i, j \in I : i.item_index = j.item_index => i = j

(* What a successful create_batch leaves, with `stored(p)` the source_data *)
(* kept for payload p.                                                     *)
CreatedAsRequested(stored(_)) ==
    (call.op = "create_batch" /\ call.result = "ok") =>
        LET items == call.request.items
            new == call.value
        IN  /\ ~BatchExists(pre, new)
            /\ db.import_batches \ pre.import_batches = {_load_batch(db, new)}
            /\ db.import_batch_items \ pre.import_batch_items = ItemsOf(db, new)
            /\ pre.import_batches \subseteq db.import_batches
            /\ pre.import_batch_items \subseteq db.import_batch_items
            /\ _load_batch(db, new).status = PENDING
            /\ _load_batch(db, new).parent_batch_id = NoBatch
            /\ _load_batch(db, new).batch_type = call.request.batch_type
            /\ Cardinality(ItemsOf(db, new)) = Len(items)
            /\ \A k \in 1..Len(items) :
                \E i \in ItemsOf(db, new) :
                    /\ i.item_index = k - 1
                    /\ i.status = PENDING
                    /\ i.source_data = stored(items[k])

Verbatim(p) == p

(* C15 as claimed: a successful create_batch(batch_type, items) commits    *)
(* one new PENDING batch without parent and len(items) PENDING items, the  *)
(* item at position i with item_index i and source_data equal to items[i]; *)
(* (batch_id, item_index) is unique and the indexes of a batch are 0..n-1. *)
C15_CreateBatch_AsClaimed ==
    /\ CreatedAsRequested(Verbatim)
    /\ DenseIndexes(db)

(* C15 amended: as claimed, except that the source_data of the item at     *)
(* position i is the JSON form of items[i] (what json.dumps writes and the *)
(* store hands back), which is items[i] itself only for a payload that a   *)
(* JSON round trip leaves unchanged.                                       *)
C15_CreateBatch ==
    /\ CreatedAsRequested(Json)
    /\ DenseIndexes(db)
    /\ DenseIndexes(tx)

(* C15 witness: create_batch returned a batch of two items with different  *)
(* payloads, one of which does not survive the JSON round trip.            *)
C15_Witness ==
    /\ pc = "returned" /\ call.op = "create_batch" /\ call.result = "ok"
    /\ Len(call.request.items) = 2
    /\ call.request.items[1] # call.request.items[2]
    /\ \E k \in 1..2 : Json(call.request.items[k]) # call.request.items[k]

(* C16: process_batch on a batch id that does not exist fails with         *)
(* BatchNotFoundError, and on a batch whose type has no registered         *)
(* processor with ProcessorNotFoundError; in both cases the store is left  *)
(* as it was (the batch is neither PROCESSING nor FAILED because of the    *)
(* call) and no processor operation is invoked.                            *)
C16_ProcessBatchPreconditions ==
    call.op = "process_batch" =>
        /\ ~BatchExists(pre, call.batch_id) =>
            /\ pc = "returned" /\ call.result = "BatchNotFoundError"
            /\ db = pre /\ tx = db /\ calls = {}
        /\ (/\ BatchExists(pre, call.batch_id)
            /\ _load_batch(pre, call.batch_id).batch_type \notin registry) =>
            /\ pc = "returned" /\ call.result = "ProcessorNotFoundError"
            /\ db = pre /\ tx = db /\ calls = {}
        /\ call.result \in {"BatchNotFoundError", "ProcessorNotFoundError"} =>
            run = IdleRun

(* C16 witness: process_batch was refused on a PENDING batch with items    *)
(* whose type the manager has no processor for.                            *)
C16_Witness ==
    /\ pc = "returned" /\ call.op = "process_batch"
    /\ call.result = "ProcessorNotFoundError"
    /\ BatchExists(db, call.batch_id)
    /\ BatchStatus(db, call.batch_id) = PENDING
    /\ ItemsOf(db, call.batch_id) # {}

(* The messages of the orchestration-level failures other than the abort. *)
HookFailures ==
    {"Batch validation failed", "validate_batch raised", "on_batch_start raised",
     "on_item_error raised", "on_batch_complete raised", "status write failed"}

(* The items whose on_item_error hook returned False in this run. *)
Stops == {c[2] : c \in {c \in calls : c[1] = "on_item_error returned False"}}

(* The loop reached the item: its first operation was invoked. *)
Visited(item) == <<"should_skip_item", item.id>> \in calls

(* The run was aborted at a failing item (batch.py:239-242). *)
Aborted ==
    run.exc.type = "ProcessingError" /\ run.exc.message # "Batch validation failed"

C19_AbortKeepsOutcomes ==
    /\ [][pc = "batch_failed" =>
            /\ db'.import_batch_items = db.import_batch_items
            /\ db'.target_rows = db.target_rows]_vars
    /\ [](/\ run.batch_id # NoBatch /\ run.exc # NoException
           /\ pc \in {"batch_failed", "returned"}
           => \A i \in ItemsOf(db, run.batch_id) :
                /\ ~Visited(i) =>
                    IF \E o \in pre.import_batch_items : o.id = i.id
                    THEN i \in pre.import_batch_items
                    ELSE i.status = PENDING
                /\ i.status = COMPLETED =>
                    i.processed_data # Null /\ RowsOf(db, i.id) # {}
                /\ i.status = FAILED => i.error_message # Null)

(* C19 witness: the run was aborted after it committed a FAILED item; an   *)
(* item after it was never reached and is still PENDING.                   *)
C19_Witness ==
    /\ pc = "returned" /\ call.result \in RunFailures
    /\ \E i, j \in ItemsOf(db, run.batch_id) :
        /\ Visited(i) /\ i.status = FAILED /\ i.error_message # Null
        /\ ~Visited(j) /\ j.status = PENDING

(* C20: an exception that leaves validate_batch, on_batch_start, the item  *)
(* loop (on_item_error included), on_batch_complete or the final status    *)
(* write takes the run to the outer except block, which discards the       *)
(* uncommitted statements, commits the batch as FAILED with the            *)
(* exception's message as error_message, and raises the same exception to  *)
(* the caller.                                                             *)
C20_OrchestrationFailure ==
    /\ [][(pc = "batch_failed" /\ pc' = "returned" /\ call'.result # "crashed") =>
            /\ db' = _update_batch_status(db, run.batch_id, FAILED,
                                          run.exc.message, Null)
            /\ tx' = db'
            /\ call'.result = run.exc.type]_vars
    /\ [](run.batch_id # NoBatch =>
            /\ (run.exc.message \in HookFailures \/ Aborted) =>
                pc \in {"batch_failed", "returned"}
            /\ pc = "batch_failed" => run.exc.message \in HookFailures \/ Aborted
            /\ (pc = "returned" /\ call.result \notin {"ok", "crashed"}) =>
                /\ call.result = run.exc.type
                /\ BatchStatus(db, run.batch_id) = FAILED
                /\ _load_batch(db, run.batch_id).error_message = run.exc.message
                /\ tx = db)

(* C20 witness: on_batch_complete raised after the loop had skipped an     *)
(* item without committing; the batch is FAILED with the hook's message    *)
(* and the item's uncommitted status is gone.                              *)
C20_Witness ==
    /\ pc = "returned" /\ call.result = "Exception"
    /\ run.exc.message = "on_batch_complete raised"
    /\ _load_batch(db, run.batch_id).error_message = "on_batch_complete raised"
    /\ \E i \in ItemsOf(db, run.batch_id) :
        Visited(i) /\ <<"process_item", i.id>> \notin calls /\ i.status = PENDING

(* C21: in every committed state, a batch whose status is FAILED carries   *)
(* an error_message, also when it ended FAILED because every item the run  *)
(* processed failed.                                                       *)
C21_FailedBatchHasMessage ==
    \A b \in db.import_batches : b.status = FAILED => b.error_message # Null

(* C22: in every committed state, an item has error_message set exactly    *)
(* when its status is FAILED, and has processed_data, target_table or      *)
(* target_id set only when its status is COMPLETED.                        *)
C22_ItemFieldConsistency ==
    \A i \in db.import_batch_items :
        /\ i.error_message # Null <=> i.status = FAILED
        /\ (\/ i.processed_data # Null
            \/ i.target_table # Null
            \/ i.target_id # Null) => i.status = COMPLETED

(* C22 witness: a committed batch holds a FAILED item with its message, a  *)
(* COMPLETED item with its outcome, and its run is over.                   *)
C22_Witness ==
    /\ RunReturned
    /\ \E i, j \in ItemsOf(db, run.batch_id) :
        /\ i.status = FAILED /\ i.error_message # Null /\ i.target_id = Null
        /\ j.status = COMPLETED /\ j.target_id # Null /\ j.error_message = Null

(* C23: whatever crashes and re-invocations of process_batch there have    *)
(* been, the write of an item's transform is in the committed store at     *)
(* most once, once committed it is never written again or removed, and an  *)
(* item that was committed COMPLETED, FAILED or SKIPPED when a call began  *)
(* is not processed by that call.                                          *)
C23_CrashSafeReentry ==
    /\ [](\A i \in db.import_batch_items : Cardinality(RowsOf(db, i.id)) <= 1)
    /\ [][\A i \in db.import_batch_items :
            RowsOf(db, i.id) # {} => RowsOf(db', i.id) = RowsOf(db, i.id)]_vars
    /\ [](\A i \in pre.import_batch_items :
            i.status \in {COMPLETED, FAILED, SKIPPED} =>
                /\ <<"process_item", i.id>> \notin calls
                /\ Current(db, i).status = i.status
                /\ RowsOf(db, i.id) = RowsOf(pre, i.id))

(* C23 witness: process_batch was invoked on a batch a crashed run had     *)
(* left PROCESSING with one item COMPLETED; it returned after completing   *)
(* another item, and each of the two has its write once.                   *)
C23_Witness ==
    /\ pc = "returned" /\ call.op = "process_batch" /\ call.result = "ok"
    /\ BatchStatus(pre, call.batch_id) = PROCESSING
    /\ \E i, j \in ItemsOf(db, call.batch_id) :
        /\ i \in pre.import_batch_items /\ i.status = COMPLETED
        /\ Cardinality(RowsOf(db, i.id)) = 1
        /\ j \notin pre.import_batch_items /\ j.status = COMPLETED
        /\ Cardinality(RowsOf(db, j.id)) = 1

(* C24: the BatchSummary handed back by process_batch and by               *)
(* get_batch_summary has the batch's committed status and, as total,       *)
(* completed, failed and pending counts, the numbers of the batch's items  *)
(* in the committed store (all, COMPLETED, FAILED, PENDING) at the time of *)
(* the read, whatever the run's own counters say; get_batch_summary on an  *)
(* unknown id fails with BatchNotFoundError.                               *)
C24_SummaryFromCommittedState ==
    /\ (/\ pc = "returned" /\ call.result = "ok"
        /\ call.op \in {"process_batch", "get_batch_summary"}) =>
        LET I == {i \in db.import_batch_items : i.batch_id = call.batch_id}
        IN  /\ \E b \in db.import_batches :
                b.id = call.batch_id /\ call.summary.status = b.status
            /\ call.summary.total_items = Cardinality(I)
            /\ call.summary.completed_items =
                    Cardinality({i \in I : i.status = COMPLETED})
            /\ call.summary.failed_items =
                    Cardinality({i \in I : i.status = FAILED})
            /\ call.summary.pending_items =
                    Cardinality({i \in I : i.status = PENDING})
    /\ (call.op = "get_batch_summary" /\ ~BatchExists(pre, call.batch_id)) =>
        /\ call.result = "BatchNotFoundError"
        /\ call.summary = NoSummary
    /\ call.op = "get_batch_summary" => db = pre /\ pc = "returned"

(* C24 witness: process_batch returned from a second run on a batch; the   *)
(* run completed nothing itself, and its summary counts the item an        *)
(* earlier run had completed.                                              *)
C24_Witness ==
    /\ pc = "returned" /\ call.op = "process_batch" /\ call.result = "ok"
    /\ run.success_count = 0
    /\ call.summary.completed_items = 1
    /\ call.summary.total_items = 2

(* C25: success_rate is completed_items / total_items * 100, and 0 when    *)
(* total_items is 0; items_per_second is total_items / duration_seconds    *)
(* when duration_seconds is set and greater than 0, and None otherwise.    *)
C25_SummaryMath ==
    LET s == batch_summary
    IN  /\ "success_rate" \in s.read =>
            /\ s.success_rate[2] > 0
            /\ s.total_items = 0 => s.success_rate[1] = 0
            /\ s.total_items > 0 =>
                s.success_rate[1] * s.total_items
                    = s.completed_items * 100 * s.success_rate[2]
        /\ "items_per_second" \in s.read =>
            IF s.duration_seconds # None /\ s.duration_seconds # <<0>>
                  /\ s.duration_seconds[1] > 0
            THEN /\ s.items_per_second # None
                 /\ s.items_per_second[1][2] > 0
                 /\ s.items_per_second[1][1] * s.duration_seconds[1]
                        = s.total_items * 1000 * s.items_per_second[1][2]
            ELSE s.items_per_second = None

(* C25 witness: both properties were read on a summary of 3 items, 2 of    *)
(* them completed, that took half a second: 200/3 percent, 6 items/s.      *)
C25_Witness ==
    /\ batch_summary.read = {"success_rate", "items_per_second"}
    /\ batch_summary.total_items = 3 /\ batch_summary.completed_items = 2
    /\ batch_summary.duration_seconds = <<500>>
    /\ batch_summary.success_rate = <<200, 3>>
    /\ batch_summary.items_per_second = <<(<<6, 1>>)>>

(* The operations invoked on the item with id item_id in this run. *)
OpsOn(item_id) == {c \in calls : c[2] = item_id}

(* C26: in a process_batch run the loop takes the batch's items in         *)
(* strictly ascending item_index: the items loaded are all the batch's     *)
(* items in that order, the items operated on or written are those up to   *)
(* the loop's position (below it, when the loop is between two items),     *)
(* every item after it is untouched, and the position never goes back, so  *)
(* that no item is visited twice.                                          *)
C26_AscendingVisitOrder ==
    /\ [](run.batch_id # NoBatch /\ <<"on_batch_start", NoItem>> \in calls
           /\ run.exc.message # "on_batch_start raised"
           => /\ {i.id : i \in ItemsOf(db, run.batch_id)}
                    = {run.items[k].id : k \in 1..Len(run.items)}
              /\ \A k, m \in 1..Len(run.items) :
                    k < m => run.items[k].item_index < run.items[m].item_index
              /\ \A k \in 1..Len(run.items) :
                    /\ OpsOn(run.items[k].id) # {} =>
                        /\ k <= run.pos
                        /\ pc = "items" => k < run.pos
                    /\ (k > run.pos \/ (k = run.pos /\ pc = "items")) =>
                        /\ Current(tx, run.items[k]) = run.items[k]
                        /\ Current(db, run.items[k]) = run.items[k])
    /\ [][(run.batch_id # NoBatch /\ run'.batch_id = run.batch_id) =>
            run'.pos \in {run.pos, run.pos + 1}]_vars

(* C26 witness: the loop stands before the second of two items; the first  *)
(* (item_index 0) has been processed and committed, the second             *)
(* (item_index 1) has not been touched.                                    *)
C26_Witness ==
    /\ pc = "items" /\ Len(run.items) = 2 /\ run.pos = 2
    /\ run.items[1].item_index = 0 /\ run.items[2].item_index = 1
    /\ <<"process_item", run.items[1].id>> \in calls
    /\ Current(db, run.items[1]).status = COMPLETED
    /\ OpsOn(run.items[2].id) = {}

(* Following parent_batch_id from batch_id reaches a batch without parent  *)
(* in at most `fuel` steps.                                                *)
RECURSIVE ReachesRoot(_, _, _)
ReachesRoot(d, batch_id, fuel) ==
    IF ~BatchExists(d, batch_id) THEN FALSE
    ELSE IF _load_batch(d, batch_id).parent_batch_id = NoBatch THEN TRUE
    ELSE IF fuel = 0 THEN FALSE
    ELSE ReachesRoot(d, _load_batch(d, batch_id).parent_batch_id, fuel - 1)

(* C27: lineage is a forest.  A batch's parent_batch_id is written when    *)
(* the batch is inserted and is the same ever after; it names a batch that *)
(* was in the store before the child was inserted (batch ids number the    *)
(* batches in creation order); no batch is its own parent or ancestor, and *)
(* from every batch the parent links lead to a batch without parent.       *)
C27_LineageForest ==
    /\ [](\A b \in db.import_batches :
            /\ b.parent_batch_id # NoBatch =>
                /\ BatchExists(db, b.parent_batch_id)
                /\ b.parent_batch_id < b.id
            /\ ReachesRoot(db, b.id, Cardinality(db.import_batches)))
    /\ [][\A c \in db'.import_batches :
            IF BatchExists(db, c.id)
            THEN c.parent_batch_id = _load_batch(db, c.id).parent_batch_id
            ELSE c.parent_batch_id # NoBatch =>
                    BatchExists(db, c.parent_batch_id)]_vars
    /\ [][\A b \in db.import_batches : BatchExists(db', b.id)]_vars

(* C27 witness: a chain of two reprocessings: a batch whose parent has a   *)
(* parent, after runs that changed the status of the batches.              *)
C27_Witness ==
    \E b, c \in db.import_batches :
        /\ b.parent_batch_id = c.id
        /\ c.parent_batch_id # NoBatch
        /\ c.status \in TerminalBatchStatuses
        /\ b.status \in TerminalBatchStatuses

(* The default on_item_error (BaseProcessor.on_item_error) ran to its end  *)
(* for the item in this run: the hook was invoked, did not return False    *)
(* and did not raise.                                                      *)
DefaultHookRan(item_id) ==
    /\ <<"on_item_error", item_id>> \in calls
    /\ item_id \notin Stops
    /\ ~(run.exc.message = "on_item_error raised"
            /\ run.items[run.pos].id = item_id)
    /\ ~(pc = "on_item_error" /\ run.items[run.pos].id = item_id)

(* C28: when process_batch has returned, every item whose process_item     *)
(* raised in the run and was handled by the default on_item_error has its  *)
(* error_message recorded and an error-level entry for its batch and item  *)
(* in the committed import_logs, whatever happened to the items after it.  *)
C28_ItemErrorLogged ==
    RunReturned =>
        \A i \in ItemsOf(db, run.batch_id) :
            DefaultHookRan(i.id) =>
                /\ i.error_message # Null
                /\ \E l \in db.import_logs :
                    /\ l.batch_id = run.batch_id
                    /\ l.item_id = i.id
                    /\ l.log_level = "error"

----------------------------------------------------------------------------
(* validate_batch reported the batch invalid in the run in progress *)
ValidationFailed == <<"validate_batch returned False", NoItem>> \in calls

(* C29: when validate_batch reports the batch invalid, process_batch       *)
(* raises ProcessingError and the batch is committed FAILED with an error  *)
(* message; on_batch_start and on_batch_complete are not invoked, no hook  *)
(* sees an item, and every item of the batch is as it was before the call  *)
(* (an item reprocess_batch has just copied is still PENDING).             *)
C29_InvalidBatchAborts ==
    ValidationFailed =>
        /\ pc \in {"batch_failed", "returned"}
        /\ run.exc = Raise("ProcessingError", "Batch validation failed")
        /\ <<"on_batch_start", NoItem>> \notin calls
        /\ <<"on_batch_complete", NoItem>> \notin calls
        /\ \A c \in calls : c[2] = NoItem
        /\ ItemsOf(tx, run.batch_id) = ItemsOf(db, run.batch_id)
        /\ \A i \in ItemsOf(db, run.batch_id) :
            \/ i \in pre.import_batch_items
            \/ /\ call.op = "reprocess_batch"
               /\ i.id \notin {o.id : o \in pre.import_batch_items}
               /\ i.status = PENDING
        /\ (pc = "returned" /\ call.result # "crashed") =>
            /\ call.result = "ProcessingError"
            /\ BatchStatus(db, run.batch_id) = FAILED
            /\ _load_batch(db, run.batch_id).error_message
                   = "Batch validation failed"

(* A batch with a finished item and a pending one is found invalid, and    *)
(* the call has raised.                                                    *)
C29_Witness ==
    /\ ValidationFailed
    /\ pc = "returned"
    /\ call.result = "ProcessingError"
    /\ \E i, j \in ItemsOf(db, run.batch_id) :
        i.status = COMPLETED /\ j.status = PENDING
----------------------------------------------------------------------------
(* The failures that can follow the call of on_batch_complete *)
CompletionFailures == {"on_batch_complete raised", "status write failed"}

HookInvoked == <<"on_batch_complete", NoItem>> \in calls

ToldSuccess == <<"on_batch_complete success=True", NoItem>> \in calls

(* C30: on_batch_complete is invoked in exactly the runs whose item loop   *)
(* ran to its end, once, after the last item and before the terminal       *)
(* status is written (a hook that raises leaves the batch FAILED with the  *)
(* hook's message), with success = True iff the status decided is          *)
(* COMPLETED; a                                                            *)
(* run that leaves the try block through an exception raised earlier does  *)
(* not invoke it.                                                          *)
C30_BatchCompleteHook ==
    /\ [](HookInvoked <=>
            \/ RunReturned
            \/ run.exc.message \in CompletionFailures)
    /\ [](HookInvoked =>
            /\ pc \in {"batch_failed", "returned"}
            /\ run.pos > Len(run.items)
            /\ ToldSuccess <=>
                   final_status(run.success_count, run.failed_count) = COMPLETED)
    /\ [](~HookInvoked => ~ToldSuccess)
    /\ [](RunReturned =>
            (ToldSuccess <=> BatchStatus(db, run.batch_id) = COMPLETED))
    /\ []((pc = "returned" /\ call.result # "crashed"
              /\ run.exc.message = "on_batch_complete raised") =>
            /\ BatchStatus(db, run.batch_id) = FAILED
            /\ _load_batch(db, run.batch_id).error_message
                   = "on_batch_complete raised")
    /\ [][(~HookInvoked /\ HookInvoked') =>
            /\ pc = "items" /\ pc' # "items"
            /\ run.pos > Len(run.items)]_vars

(* A run of two items that both failed has returned: the hook ran and was  *)
(* told the batch did not succeed.                                         *)
C30_Witness ==
    /\ RunReturned
    /\ HookInvoked /\ ~ToldSuccess
    /\ Len(run.items) = 2
    /\ \A i \in ItemsOf(db, run.batch_id) : i.status = FAILED
----------------------------------------------------------------------------
(* The items of the run that should_skip_item or validate_item turned away *)
SkippedItems ==
    {c[2] : c \in {c \in calls : c[1] \in {"should_skip_item returned True",
                                           "validate_item returned False"}}}

(* The items of the run, not terminal when loaded, that the committed      *)
(* store holds with the given status.                                      *)
Outcomes(status) ==
    {k \in 1..Len(run.items) :
        /\ ~is_complete(run.items[k])
        /\ Current(db, run.items[k]).status = status}

(* C31: an item turned away by should_skip_item or validate_item is never  *)
(* handed to process_item or on_item_error, and it is counted neither in   *)
(* success_count nor in failed_count: the two counters are the numbers of  *)
(* items the run has committed COMPLETED and FAILED.                       *)
C31_SkippedNotCounted ==
    run.batch_id # NoBatch =>
        /\ \A id \in SkippedItems :
            /\ <<"process_item", id>> \notin calls
            /\ <<"on_item_error", id>> \notin calls
            /\ Current(db, [id |-> id]).status \notin {COMPLETED, FAILED}
        /\ run.success_count = Cardinality(Outcomes(COMPLETED))
        /\ run.failed_count = Cardinality(Outcomes(FAILED))
        /\ run.success_count + run.failed_count + Cardinality(SkippedItems)
               <= Len(run.items)

(* A run has returned in which one item was skipped by should_skip_item    *)
(* and the other rejected by validate_item.                                *)
C31_Witness ==
    /\ RunReturned
    /\ \E i, j \in SkippedItems :
        /\ <<"should_skip_item returned True", i>> \in calls
        /\ <<"validate_item returned False", j>> \in calls
    /\ run.success_count = 0 /\ run.failed_count = 0
----------------------------------------------------------------------------
(* The run in progress has not yet written a terminal batch status. *)
RunInProgress ==
    /\ run.batch_id # NoBatch
    /\ pc \in {"validate_batch", "on_batch_start", "items", "item_failed",
               "on_item_error", "batch_failed"}

(* C32: while a run that has not yet written its terminal status has an    *)
(* item outcome (COMPLETED or FAILED) in the committed store, the batch's   *)
(* committed status is PROCESSING.                                         *)
C32_ProcessingPersisted ==
    (RunInProgress /\ Outcomes(COMPLETED) \cup Outcomes(FAILED) # {}) =>
        BatchStatus(db, run.batch_id) = PROCESSING
----------------------------------------------------------------------------
(* C33: in the committed store a PENDING batch has neither started_at nor  *)
(* completed_at, a batch that process_batch has moved to PROCESSING,       *)
(* COMPLETED or FAILED has started_at set, and completed_at is set only on *)
(* COMPLETED and FAILED batches.                                           *)
C33_BatchTimestamps ==
    \A b \in db.import_batches :
        /\ b.status = PENDING =>
            b.started_at = Null /\ b.completed_at = Null
        /\ b.status \in {PROCESSING, COMPLETED, FAILED} => b.started_at # Null
        /\ b.completed_at # Null => b.status \in {COMPLETED, FAILED}
----------------------------------------------------------------------------
(* C34 as claimed: a run that returns with no success leaves the batch     *)
(* FAILED, and one with a success leaves it COMPLETED.                     *)
C34_ZeroSuccessFails_AsClaimed ==
    RunReturned =>
        /\ run.success_count = 0 => BatchStatus(db, run.batch_id) = FAILED
        /\ run.success_count > 0 => BatchStatus(db, run.batch_id) = COMPLETED

(* C34: a run that returns with no success and at least one failure leaves *)
(* the batch FAILED, and a run that returns with at least one success      *)
(* leaves it COMPLETED, whatever the number of failures.                   *)
C34_StatusFromCounters ==
    RunReturned =>
        /\ (run.success_count = 0 /\ run.failed_count > 0) =>
                BatchStatus(db, run.batch_id) = FAILED
        /\ run.success_count > 0 => BatchStatus(db, run.batch_id) = COMPLETED

(* A run returned with one success and one failure, the batch COMPLETED.   *)
C34_Witness ==
    /\ RunReturned
    /\ run.success_count = 1 /\ run.failed_count = 1
    /\ BatchStatus(db, run.batch_id) = COMPLETED
----------------------------------------------------------------------------
(* C35: a run in which no item succeeded and none failed (every item was   *)
(* skipped or passed over, or there was none) calls on_batch_complete with *)
(* success = True, and when it returns the batch is COMPLETED.             *)
C35_NothingDoneCompletes ==
    (run.batch_id # NoBatch /\ run.success_count = 0 /\ run.failed_count = 0) =>
        /\ HookInvoked => ToldSuccess
        /\ RunReturned =>
            /\ HookInvoked
            /\ BatchStatus(db, run.batch_id) = COMPLETED
            /\ call.summary.status = COMPLETED

(* A run over two items, both turned away, has returned. *)
C35_Witness ==
    /\ RunReturned
    /\ Len(run.items) = 2
    /\ \A k \in 1..2 : run.items[k].id \in SkippedItems
    /\ ToldSuccess
----------------------------------------------------------------------------
(* The messages the batch-level hooks log *)
BatchLevelMessages ==
    {"Starting customer data import batch",
     "Customer import batch completed successfully",
     "Customer import batch completed with errors"}

(* The messages logged while the item is the one being handled *)
ItemLevelMessages(item) ==
    {"Item " \o ToString(item.item_index) \o " failed validation"}
    \cup {"Error processing item " \o ToString(item.item_index) \o ": " \o m :
            m \in ItemFailureMessages}

(* C36: a log entry written from a batch-level hook carries its batch and  *)
(* no item id, and an entry written while an item is handled carries that  *)
(* item's id (and the item's batch).                                       *)
C36_ContextScoping ==
    \A l \in db.import_logs \cup tx.import_logs :
        /\ BatchExists(db, l.batch_id)
        /\ l.message \in BatchLevelMessages => l.item_id = NoItem
        /\ l.message \notin BatchLevelMessages =>
            \E i \in ItemsOf(db, l.batch_id) :
                i.id = l.item_id /\ l.message \in ItemLevelMessages(i)
----------------------------------------------------------------------------
(* C37: a process_batch call on an existing batch with a registered        *)
(* processor comes to its end, and unless a crash ended it, the batch is   *)
(* then committed COMPLETED or FAILED, whether the call returned a summary *)
(* or raised.                                                              *)
C37_RunTerminates ==
    /\ RunInProgress ~> pc = "returned"
    /\ []((pc = "returned" /\ run.batch_id # NoBatch /\ call.result # "crashed")
            => /\ BatchStatus(db, run.batch_id) \in {COMPLETED, FAILED}
               /\ BatchStatus(tx, run.batch_id) = BatchStatus(db, run.batch_id))

(* A call that raised after it had committed an item: the batch is FAILED. *)
C37_Witness ==
    /\ pc = "returned" /\ run.batch_id # NoBatch
    /\ call.result = "Exception"
    /\ Outcomes(COMPLETED) # {}
    /\ BatchStatus(db, run.batch_id) = FAILED
----------------------------------------------------------------------------
(* process_batch was called on a batch all of whose items were COMPLETED,  *)
(* FAILED or SKIPPED before the call.                                      *)
AllTerminalBefore ==
    /\ call.op = "process_batch"
    /\ run.batch_id # NoBatch
    /\ \A i \in ItemsOf(pre, run.batch_id) :
        i.status \in {COMPLETED, FAILED, SKIPPED}

(* C38: process_batch on a batch whose items are all terminal calls no     *)
(* per-item operation of the processor and changes no item; its counters   *)
(* stay at zero, so when it returns the batch is COMPLETED with no error   *)
(* message, whatever the batch's status and message were before.           *)
C38_RerunOfFinishedBatch ==
    AllTerminalBefore =>
        /\ \A c \in calls : c[2] = NoItem
        /\ pc \notin {"item_failed", "on_item_error"}
        /\ ItemsOf(db, run.batch_id) = ItemsOf(pre, run.batch_id)
        /\ ItemsOf(tx, run.batch_id) = ItemsOf(pre, run.batch_id)
        /\ run.success_count = 0 /\ run.failed_count = 0
        /\ RunReturned =>
            /\ BatchStatus(db, run.batch_id) = COMPLETED
            /\ _load_batch(db, run.batch_id).error_message = Null

(* A batch that ended FAILED with a message and its only items FAILED is   *)
(* run again, and the call has returned.                                   *)
C38_Witness ==
    /\ AllTerminalBefore /\ RunReturned
    /\ ItemsOf(pre, run.batch_id) # {}
    /\ \A i \in ItemsOf(pre, run.batch_id) : i.status = FAILED
    /\ BatchStatus(pre, run.batch_id) = FAILED
    /\ _load_batch(pre, run.batch_id).error_message # Null
----------------------------------------------------------------------------
(* The items of the run whose should_skip_item or validate_item raised:    *)
(* the operation was called and neither returned nor was followed by the   *)
(* next one.                                                               *)
SkipRaised ==
    {c[2] : c \in {c \in calls :
        /\ c[1] = "should_skip_item"
        /\ <<"should_skip_item returned True", c[2]>> \notin calls
        /\ <<"validate_item", c[2]>> \notin calls}}

ValidateRaised ==
    {c[2] : c \in {c \in calls :
        /\ c[1] = "validate_item"
        /\ <<"validate_item returned False", c[2]>> \notin calls
        /\ <<"process_item", c[2]>> \notin calls}}

(* C39: an exception of should_skip_item or validate_item is an item       *)
(* failure.  It is caught by the item's except block: the transaction is   *)
(* rolled back and the item committed FAILED with the exception's message  *)
(* and no business row, failed_count counts it, and on_item_error is       *)
(* called for it; the run is not failed by it, and goes on as after a      *)
(* process_item exception.                                                 *)
C39_HookExceptionIsItemFailure ==
    run.batch_id # NoBatch =>
        /\ run.exc.message \in {"should_skip_item raised", "validate_item raised"}
            => \/ pc \in {"item_failed", "on_item_error"}
               \/ pc = "returned" /\ call.result = "crashed"
        /\ \A id \in SkipRaised \cup ValidateRaised :
            LET item == Current(db, [id |-> id])
                message == IF id \in SkipRaised THEN "should_skip_item raised"
                           ELSE "validate_item raised"
                current == run.pos <= Len(run.items) /\ run.items[run.pos].id = id
            IN  \/ current /\ pc = "item_failed" /\ run.exc.message = message
                \/ current /\ pc = "returned" /\ call.result = "crashed"
                       /\ run.exc.message = message /\ item.status # FAILED
                \/ /\ item.status = FAILED
                   /\ item.error_message = message
                   /\ RowsOf(db, id) = {}
                   /\ run.failed_count = Cardinality(Outcomes(FAILED))
                   /\ \/ <<"on_item_error", id>> \in calls
                      \/ current /\ pc = "on_item_error" /\ tx = db
                      \/ current /\ pc = "returned" /\ call.result = "crashed"
        /\ (pc = "on_item_error" /\ call.op = "process_batch" /\ run.pos = 1
                /\ run.items[1].id \in SkipRaised \cup ValidateRaised) =>
            db.import_logs = pre.import_logs /\ db.import_batches = pre.import_batches

(* The run of a batch whose only item made validate_item raise went on     *)
(* after the default on_item_error and returned its summary.               *)
C39_Witness ==
    /\ RunReturned
    /\ ValidateRaised # {}
    /\ \A id \in ValidateRaised :
        /\ <<"on_item_error", id>> \in calls
        /\ Current(db, [id |-> id]).status = FAILED
    /\ run.failed_count = 1
----------------------------------------------------------------------------
(* The batch that was run once, and the batches derived from it *)
Original == 1

Derived(d) == {b \in d.import_batches : b.parent_batch_id = Original}

(* The step is a reprocess_batch(Original, failed_items_only = True) call  *)
ReprocessesFailedItems ==
    /\ pc = "idle"
    /\ call'.op = "reprocess_batch"
    /\ call'.batch_id = Original
    /\ call'.failed_items_only

(* C40: reprocess_batch(A, failed_items_only = True) leaves A's FAILED      *)
(* items as they are, as does every other step, so each such call creates  *)
(* one more batch, with a new id, parent A and a PENDING copy of every     *)
(* FAILED item of A in order, whatever became of the batches derived       *)
(* before.                                                                 *)
C40_ReprocessDoesNotConsume ==
    /\ [][_load_batch_items(db', Original, FAILED)
              = _load_batch_items(db, Original, FAILED)]_vars
    /\ [][ReprocessesFailedItems =>
            LET new == {b \in db'.import_batches : ~BatchExists(db, b.id)}
                failed == _load_batch_items(db, Original, FAILED)
            IN  /\ Len(failed) > 0
                /\ Cardinality(new) = 1
                /\ Cardinality(Derived(db')) = Cardinality(Derived(db)) + 1
                /\ \A b \in new :
                    LET copied == _load_batch_items(db', b.id, Null)
                    IN  /\ b.parent_batch_id = Original
                        /\ Len(copied) = Len(failed)
                        /\ \A k \in 1..Len(copied) :
                            /\ copied[k].source_data = failed[k].source_data
                            /\ copied[k].item_index = k - 1
                            /\ copied[k].status = PENDING
                            /\ copied[k].id \notin
                                   {o.id : o \in db.import_batch_items}]_vars

(* Two batches derived from the original's single FAILED item exist, the   *)
(* first finished with its item COMPLETED, the second just returned.       *)
C40_Witness ==
    /\ RunReturned /\ call.op = "reprocess_batch" /\ call.failed_items_only
    /\ call.batch_id = Original /\ run.batch_id = 3
    /\ Cardinality(Derived(db)) = 2
    /\ Cardinality(ItemsOf(db, Original)) = 2
    /\ \A b \in Derived(db) : Cardinality(ItemsOf(db, b.id)) = 1
    /\ \A i \in ItemsOf(db, 2) : i.status = COMPLETED
====
